---- MODULE Spec2Model ----
(***************************************************************************)
(* generate_chart.py: a Gantt-style timeline.  build_events() returns a    *)
(* list of (label, start, end) tuples, one of them anchored to today's     *)
(* date; create_timeline() sorts the list by start date, computes the bar  *)
(* geometry, draws one bar per entry, labels the axes, writes the figure   *)
(* to the output path and closes the figure.                               *)
(*                                                                         *)
(* A date is the tuple <<year, month, day>>.  An entry is the tuple        *)
(* <<label, start, end>>, so Python's item[0], item[1], item[2] are        *)
(* e[1], e[2], e[3] here.  Bar widths are held in tenths of a day, so that *)
(* the literal 0.1 of the source is the integer 1.                         *)
(***************************************************************************)
EXTENDS Integers, Sequences, FiniteSets, TLC

VARIABLES
    pc,               \* position of the script
    today,            \* the date read by date.today(), or <<>> before the read
    timeline_events,  \* the caller's list (module level, line 116)
    output_path,      \* the argument of create_timeline
    events_sorted,    \* line 78
    labels,           \* line 79
    starts,           \* line 80
    ends,             \* line 81
    durations,        \* line 82
    fig,              \* "none", "open" or "closed"
    i,                \* loop index of line 89
    bars,             \* the calls of ax.barh made so far
    yticks,           \* ax.set_yticks
    yticklabels,      \* ax.set_yticklabels
    y_inverted,       \* ax.invert_yaxis
    files,            \* the paths written by fig.savefig, in order
    exc,              \* "none", or "raised" once a library call has raised
    exitCode,         \* -1 while the process runs, then its exit status
    runs,             \* number of invocations of the script so far
    prevToday,        \* today of the previous invocation
    prevGeom          \* geometry of the previous invocation, if it completed

vars == <<pc, today, timeline_events, output_path, events_sorted, labels,
          starts, ends, durations, fig, i, bars, yticks, yticklabels,
          y_inverted, files, exc, exitCode, runs, prevToday, prevGeom>>

runVars == <<runs, prevToday, prevGeom>>

----------------------------------------------------------------------------
(* Bounds of the model *)

MaxYear == 2027

MaxRuns == 2

\* The dates date.today() may return: the months and days are the ones the
\* schedule's own dates fall on (each of the three months has 31 days).
TodayYears == 2025..MaxYear
TodayMonths == {1, 5, 12}
TodayDays == {1, 2, 16, 31}
Todays == {<<y, m, d>> : y \in TodayYears, m \in TodayMonths, d \in TodayDays}

----------------------------------------------------------------------------
(* datetime.date and matplotlib.dates.date2num *)

date(y, m, d) == <<y, m, d>>

\* date.__lt__: comparison of (year, month, day)
DateLT(a, b) ==
    \/ a[1] < b[1]
    \/ a[1] = b[1] /\ a[2] < b[2]
    \/ a[1] = b[1] /\ a[2] = b[2] /\ a[3] < b[3]

IsLeap(y) == y % 4 = 0 /\ (y % 100 # 0 \/ y % 400 = 0)

DaysInMonth(y, m) ==
    IF m = 2 THEN (IF IsLeap(y) THEN 29 ELSE 28)
    ELSE IF m \in {4, 6, 9, 11} THEN 30 ELSE 31

RECURSIVE DaysBeforeMonth(_, _)
DaysBeforeMonth(y, m) ==
    IF m = 1 THEN 0 ELSE DaysBeforeMonth(y, m - 1) + DaysInMonth(y, m - 1)

DaysBeforeYear(y) ==
    (y - 1) * 365 + ((y - 1) \div 4) - ((y - 1) \div 100) + ((y - 1) \div 400)

\* date.toordinal(): 1 for 0001-01-01
ToOrdinal(dt) == DaysBeforeYear(dt[1]) + DaysBeforeMonth(dt[1], dt[2]) + dt[3]

\* matplotlib's epoch, 1970-01-01
EpochDate == date(1970, 1, 1)

\* mdates.date2num: days since the epoch
date2num(dt) == ToOrdinal(dt) - ToOrdinal(EpochDate)

----------------------------------------------------------------------------
(* build_events *)

AnchoredLabel == "Internship at Epic"

\* The anchored entry is last in the list instead of first.
build_events_anchor_last(t) ==
    << <<"Funding (18 months)", date(2026, 1, 1), date(2027, 6, 30)>>,
       <<"Unfunded period", date(2027, 7, 1), date(2027, 12, 31)>>,
       <<"Teaching duties", date(2026, 1, 1), date(2026, 12, 31)>>,
       <<"NeurIPS 2025", date(2025, 12, 2), date(2025, 12, 7)>>,
       <<"AAAI 2026", date(2026, 1, 20), date(2026, 1, 27)>>,
       <<"ICML 2026", date(2026, 7, 13), date(2026, 7, 19)>>,
       <<"NeurIPS 2026", date(2026, 12, 1), date(2026, 12, 7)>>,
       <<"AAAI 2027", date(2027, 2, 1), date(2027, 2, 8)>>,
       <<"ICML 2027", date(2027, 7, 10), date(2027, 7, 16)>>,
       <<"NeurIPS 2027", date(2027, 12, 1), date(2027, 12, 7)>>,
       <<"PIRC submission", date(2026, 5, 16), date(2026, 5, 16)>>,
       <<"Second paper submission", date(2027, 8, 15), date(2027, 8, 15)>>,
       <<AnchoredLabel, t, date(2025, 12, 31)>> >>

\* A second entry (the funding period) starts today as well.
build_events_two_anchors(t) ==
    << <<AnchoredLabel, t, date(2025, 12, 31)>>,
       <<"Funding (18 months)", t, date(2027, 6, 30)>>,
       <<"Unfunded period", date(2027, 7, 1), date(2027, 12, 31)>>,
       <<"Teaching duties", date(2026, 1, 1), date(2026, 12, 31)>>,
       <<"NeurIPS 2025", date(2025, 12, 2), date(2025, 12, 7)>>,
       <<"AAAI 2026", date(2026, 1, 20), date(2026, 1, 27)>>,
       <<"ICML 2026", date(2026, 7, 13), date(2026, 7, 19)>>,
       <<"NeurIPS 2026", date(2026, 12, 1), date(2026, 12, 7)>>,
       <<"AAAI 2027", date(2027, 2, 1), date(2027, 2, 8)>>,
       <<"ICML 2027", date(2027, 7, 10), date(2027, 7, 16)>>,
       <<"NeurIPS 2027", date(2027, 12, 1), date(2027, 12, 7)>>,
       <<"PIRC submission", date(2026, 5, 16), date(2026, 5, 16)>>,
       <<"Second paper submission", date(2027, 8, 15), date(2027, 8, 15)>> >>

\* The list returned at lines 46-67, t being the value of date.today()
build_events(t) ==
    << <<AnchoredLabel, t, date(2025, 12, 31)>>,
       <<"Funding (18 months)", date(2026, 1, 1), date(2027, 6, 30)>>,
       <<"Unfunded period", date(2027, 7, 1), date(2027, 12, 31)>>,
       <<"Teaching duties", date(2026, 1, 1), date(2026, 12, 31)>>,
       <<"NeurIPS 2025", date(2025, 12, 2), date(2025, 12, 7)>>,
       <<"AAAI 2026", date(2026, 1, 20), date(2026, 1, 27)>>,
       <<"ICML 2026", date(2026, 7, 13), date(2026, 7, 19)>>,
       <<"NeurIPS 2026", date(2026, 12, 1), date(2026, 12, 7)>>,
       <<"AAAI 2027", date(2027, 2, 1), date(2027, 2, 8)>>,
       <<"ICML 2027", date(2027, 7, 10), date(2027, 7, 16)>>,
       <<"NeurIPS 2027", date(2027, 12, 1), date(2027, 12, 7)>>,
       <<"PIRC submission", date(2026, 5, 16), date(2026, 5, 16)>>,
       <<"Second paper submission", date(2027, 8, 15), date(2027, 8, 15)>> >>

----------------------------------------------------------------------------
(* sorted(events, key=lambda item: item[1]) *)

\* The sort key of line 78
SortKey(e) == e[2]

\* Number of elements of s that come out no later than s[p] when the ties
\* are given in reverse of the input order
RankTiesReversed(s, p) ==
    Cardinality({q \in 1..Len(s) :
        \/ DateLT(SortKey(s[q]), SortKey(s[p]))
        \/ (SortKey(s[q]) = SortKey(s[p]) /\ q >= p)})

\* An ascending sort that reverses the input order of equal keys
sorted_ties_reversed(s) ==
    [k \in 1..Len(s) |-> s[CHOOSE p \in 1..Len(s) : RankTiesReversed(s, p) = k]]

\* The position (from 1) of s[p] in sorted(s): the elements of smaller key
\* precede it, and so do the elements of equal key that precede it in s
Rank(s, p) ==
    Cardinality({q \in 1..Len(s) :
        \/ DateLT(SortKey(s[q]), SortKey(s[p]))
        \/ (SortKey(s[q]) = SortKey(s[p]) /\ q <= p)})

\* Python's sorted is ascending and stable
sorted(s) ==
    [k \in 1..Len(s) |-> s[CHOOSE p \in 1..Len(s) : Rank(s, p) = k]]

----------------------------------------------------------------------------
(* Geometry of the bars *)

\* Widths are counted in tenths of a day
TenthsPerDay == 10

\* The literal 0.1 of line 91, in tenths of a day
ClampWidth == 1

\* tab20 has 20 colours (cmap.N)
CmapN == 20

\* The width argument without the clamp
BarWidthUnclamped(duration) == duration * TenthsPerDay

\* The width argument of ax.barh, line 91
BarWidth(duration) ==
    IF duration > 0 THEN duration * TenthsPerDay ELSE ClampWidth

\* barh(k, width, left=start, color=cmap(k % cmap.N)) for the k-th row, k from 0
Bar(k, start, duration) ==
    [y |-> k, width |-> BarWidth(duration), left |-> start, colour |-> k % CmapN]

----------------------------------------------------------------------------
(* The script, lines 115-117, and create_timeline, lines 77-112 *)

\* The steps that call into matplotlib: each may raise
LibrarySteps ==
    {"lists", "subplots", "cmap", "bars", "yticks", "xaxis", "grid", "save", "close"}

Init ==
    /\ pc = "main"
    /\ today = <<>>
    /\ timeline_events = <<>>
    /\ output_path = ""
    /\ events_sorted = <<>>
    /\ labels = <<>>
    /\ starts = <<>>
    /\ ends = <<>>
    /\ durations = <<>>
    /\ fig = "none"
    /\ i = 0
    /\ bars = <<>>
    /\ yticks = <<>>
    /\ yticklabels = <<>>
    /\ y_inverted = FALSE
    /\ files = <<>>
    /\ exc = "none"
    /\ exitCode = -1
    /\ runs = 1
    /\ prevToday = <<>>
    /\ prevGeom = <<>>

\* line 116: timeline_events = build_events(), which reads the clock (line 44)
BuildEvents ==
    /\ pc = "main"
    /\ \E t \in Todays :
        /\ today' = t
        /\ timeline_events' = build_events(t)
    /\ pc' = "call"
    /\ UNCHANGED <<output_path, events_sorted, labels, starts, ends, durations,
                   fig, i, bars, yticks, yticklabels, y_inverted, files, exc,
                   exitCode, runVars>>

\* line 117: create_timeline(timeline_events, 'timeline.png')
CallCreateTimeline ==
    /\ pc = "call"
    /\ output_path' = "timeline.png"
    /\ pc' = "sort"
    /\ UNCHANGED <<today, timeline_events, events_sorted, labels, starts, ends,
                   durations, fig, i, bars, yticks, yticklabels, y_inverted,
                   files, exc, exitCode, runVars>>

\* events.sort(key=...) in place of sorted(events, key=...)
SortEventsInPlace ==
    /\ pc = "sort"
    /\ timeline_events' = sorted(timeline_events)
    /\ events_sorted' = sorted(timeline_events)
    /\ pc' = "lists"
    /\ UNCHANGED <<today, output_path, labels, starts, ends, durations,
                   fig, i, bars, yticks, yticklabels, y_inverted, files, exc,
                   exitCode, runVars>>

\* line 78: events_sorted = sorted(events, key=lambda item: item[1])
SortEvents ==
    /\ pc = "sort"
    /\ events_sorted' = sorted(timeline_events)
    /\ pc' = "lists"
    /\ UNCHANGED <<today, timeline_events, output_path, labels, starts, ends,
                   durations, fig, i, bars, yticks, yticklabels, y_inverted,
                   files, exc, exitCode, runVars>>

\* durations count both the first and the last day
ComputeListsInclusive ==
    /\ pc = "lists"
    /\ labels' = [k \in 1..Len(events_sorted) |-> events_sorted[k][1]]
    /\ starts' = [k \in 1..Len(events_sorted) |-> date2num(events_sorted[k][2])]
    /\ ends' = [k \in 1..Len(events_sorted) |-> date2num(events_sorted[k][3])]
    /\ durations' = [k \in 1..Len(events_sorted) |->
                        date2num(events_sorted[k][3]) - date2num(events_sorted[k][2]) + 1]
    /\ pc' = "subplots"
    /\ UNCHANGED <<today, timeline_events, output_path, events_sorted, fig, i,
                   bars, yticks, yticklabels, y_inverted, files, exc, exitCode,
                   runVars>>

\* the labels are taken from the unsorted list
ComputeListsUnsortedLabels ==
    /\ pc = "lists"
    /\ labels' = [k \in 1..Len(timeline_events) |-> timeline_events[k][1]]
    /\ starts' = [k \in 1..Len(events_sorted) |-> date2num(events_sorted[k][2])]
    /\ ends' = [k \in 1..Len(events_sorted) |-> date2num(events_sorted[k][3])]
    /\ durations' = [k \in 1..Len(events_sorted) |->
                        date2num(events_sorted[k][3]) - date2num(events_sorted[k][2])]
    /\ pc' = "subplots"
    /\ UNCHANGED <<today, timeline_events, output_path, events_sorted, fig, i,
                   bars, yticks, yticklabels, y_inverted, files, exc, exitCode,
                   runVars>>

\* lines 79-82: labels, starts, ends, durations
ComputeLists ==
    /\ pc = "lists"
    /\ labels' = [k \in 1..Len(events_sorted) |-> events_sorted[k][1]]
    /\ starts' = [k \in 1..Len(events_sorted) |-> date2num(events_sorted[k][2])]
    /\ ends' = [k \in 1..Len(events_sorted) |-> date2num(events_sorted[k][3])]
    /\ durations' = [k \in 1..Len(events_sorted) |->
                        date2num(events_sorted[k][3]) - date2num(events_sorted[k][2])]
    /\ pc' = "subplots"
    /\ UNCHANGED <<today, timeline_events, output_path, events_sorted, fig, i,
                   bars, yticks, yticklabels, y_inverted, files, exc, exitCode,
                   runVars>>

\* line 84: fig, ax = plt.subplots(figsize=(10, 6))
Subplots ==
    /\ pc = "subplots"
    /\ fig' = "open"
    /\ pc' = "cmap"
    /\ UNCHANGED <<today, timeline_events, output_path, events_sorted, labels,
                   starts, ends, durations, i, bars, yticks, yticklabels,
                   y_inverted, files, exc, exitCode, runVars>>

\* lines 88-89: cmap = plt.cm.get_cmap("tab20"), and the loop starts at 0
GetCmap ==
    /\ pc = "cmap"
    /\ i' = 0
    /\ pc' = "bars"
    /\ UNCHANGED <<today, timeline_events, output_path, events_sorted, labels,
                   starts, ends, durations, fig, bars, yticks, yticklabels,
                   y_inverted, files, exc, exitCode, runVars>>

\* the loop stops one row early
BarsRemainingOffByOne == i < Len(labels) - 1

\* line 89: the zip of labels, starts, durations has another element
BarsRemaining == i < Len(labels)

\* lines 89-92: one iteration of the loop
DrawBar ==
    /\ pc = "bars"
    /\ BarsRemaining
    /\ bars' = Append(bars, Bar(i, starts[i + 1], durations[i + 1]))
    /\ i' = i + 1
    /\ UNCHANGED <<pc, today, timeline_events, output_path, events_sorted,
                   labels, starts, ends, durations, fig, yticks, yticklabels,
                   y_inverted, files, exc, exitCode, runVars>>

\* lines 95-97: set_yticks(range(len(labels))), set_yticklabels, invert_yaxis
SetYTicks ==
    /\ pc = "bars"
    /\ ~BarsRemaining
    /\ yticks' = [k \in 1..Len(labels) |-> k - 1]
    /\ yticklabels' = labels
    /\ y_inverted' = TRUE
    /\ pc' = "xaxis"
    /\ UNCHANGED <<today, timeline_events, output_path, events_sorted, labels,
                   starts, ends, durations, fig, i, bars, files, exc, exitCode,
                   runVars>>

\* lines 100-103: the date axis, its locator and its formatter
FormatXAxis ==
    /\ pc = "xaxis"
    /\ pc' = "grid"
    /\ UNCHANGED <<today, timeline_events, output_path, events_sorted, labels,
                   starts, ends, durations, fig, i, bars, yticks, yticklabels,
                   y_inverted, files, exc, exitCode, runVars>>

\* the figure is never written
DecorateSkipSave ==
    /\ pc = "grid"
    /\ pc' = "close"
    /\ UNCHANGED <<today, timeline_events, output_path, events_sorted, labels,
                   starts, ends, durations, fig, i, bars, yticks, yticklabels,
                   y_inverted, files, exc, exitCode, runVars>>

\* lines 106-110: grid, title, x label, tight_layout
Decorate ==
    /\ pc = "grid"
    /\ pc' = "save"
    /\ UNCHANGED <<today, timeline_events, output_path, events_sorted, labels,
                   starts, ends, durations, fig, i, bars, yticks, yticklabels,
                   y_inverted, files, exc, exitCode, runVars>>

\* line 111: fig.savefig(output_path)
SaveFig ==
    /\ pc = "save"
    /\ files' = Append(files, output_path)
    /\ pc' = "close"
    /\ UNCHANGED <<today, timeline_events, output_path, events_sorted, labels,
                   starts, ends, durations, fig, i, bars, yticks, yticklabels,
                   y_inverted, exc, exitCode, runVars>>

\* line 112: plt.close(fig); create_timeline returns, the script ends, exit 0
Close ==
    /\ pc = "close"
    /\ fig' = "closed"
    /\ pc' = "done"
    /\ exitCode' = 0
    /\ UNCHANGED <<today, timeline_events, output_path, events_sorted, labels,
                   starts, ends, durations, i, bars, yticks, yticklabels,
                   y_inverted, files, exc, runVars>>

\* the exception is caught and the script carries on with the next statement
RaiseSwallowed ==
    /\ pc \in LibrarySteps
    /\ exc' = "raised"
    /\ UNCHANGED <<pc, today, timeline_events, output_path, events_sorted,
                   labels, starts, ends, durations, fig, i, bars, yticks,
                   yticklabels, y_inverted, files, exitCode, runVars>>

\* A library call raises.  Neither create_timeline (lines 77-112) nor the
\* script (lines 115-117) has a handler: the exception leaves both and the
\* interpreter exits with status 1.
Raise ==
    /\ pc \in LibrarySteps
    /\ exc' = "raised"
    /\ pc' = "failed"
    /\ exitCode' = 1
    /\ UNCHANGED <<today, timeline_events, output_path, events_sorted, labels,
                   starts, ends, durations, fig, i, bars, yticks, yticklabels,
                   y_inverted, files, runVars>>

\* (label, row, left edge, width) of every bar drawn
Geometry ==
    [k \in 1..Len(bars) |->
        [label |-> labels[k], row |-> bars[k].y, left |-> bars[k].left,
         width |-> bars[k].width]]

\* The script is run again (lines 115-117 from the top); the geometry of the
\* run that just ended is remembered when it completed
Invoke ==
    /\ pc \in {"done", "failed"}
    /\ runs < MaxRuns
    /\ runs' = runs + 1
    /\ prevToday' = today
    /\ prevGeom' = IF pc = "done" THEN Geometry ELSE <<>>
    /\ pc' = "main"
    /\ today' = <<>>
    /\ timeline_events' = <<>>
    /\ output_path' = ""
    /\ events_sorted' = <<>>
    /\ labels' = <<>>
    /\ starts' = <<>>
    /\ ends' = <<>>
    /\ durations' = <<>>
    /\ fig' = "none"
    /\ i' = 0
    /\ bars' = <<>>
    /\ yticks' = <<>>
    /\ yticklabels' = <<>>
    /\ y_inverted' = FALSE
    /\ files' = <<>>
    /\ exc' = "none"
    /\ exitCode' = -1

Next ==
    \/ BuildEvents
    \/ CallCreateTimeline
    \/ SortEvents
    \/ ComputeLists
    \/ Subplots
    \/ GetCmap
    \/ DrawBar
    \/ SetYTicks
    \/ FormatXAxis
    \/ Decorate
    \/ SaveFig
    \/ Close
    \/ Raise

\* One run of the script
Spec == Init /\ [][Next]_vars

\* One run of the script; the interpreter keeps executing statements
FairSpec == Init /\ [][Next]_vars /\ WF_vars(Next)

NextRuns == Next \/ Invoke

\* The script run up to MaxRuns times, one run after the other
SpecRuns == Init /\ [][NextRuns]_vars

----------------------------------------------------------------------------
(* Properties *)

NumBars == Len(bars)

\* The entry the k-th bar was drawn for
EntryOf(k) == events_sorted[k]

\* Whole days from date a to date b
DaysBetween(a, b) == ToOrdinal(b) - ToOrdinal(a)

\* create_timeline has computed its sorted copy
Sorted == pc \notin {"main", "call", "sort"}

\* C1: every bar whose entry has end <= start (computed width <= 0) is drawn
\* with the clamp width 0.1 at left edge numeric(start); the single-day entry
\* "PIRC submission" sits at day 20589 (2026-05-16) with width 0.1; no bar has
\* a zero or negative width.
C1_ClampedWidth ==
    \A k \in 1..NumBars :
        /\ bars[k].width > 0
        /\ ~DateLT(EntryOf(k)[2], EntryOf(k)[3]) =>
              /\ bars[k].width = ClampWidth
              /\ bars[k].left = date2num(EntryOf(k)[2])
        /\ labels[k] = "PIRC submission" =>
              /\ bars[k].width = 1
              /\ bars[k].left = 20589

\* a run that drew a bar for an entry ending before it starts, and the
\* single-day bar
C1_Witness ==
    /\ pc = "done"
    /\ \E k \in 1..NumBars : DateLT(EntryOf(k)[3], EntryOf(k)[2])
    /\ \E k \in 1..NumBars : labels[k] = "PIRC submission"

\* C2 as stated: for every entry with end >= start the bar width is
\* (end - start) days.
C2_AsStated ==
    \A k \in 1..NumBars :
        ~DateLT(EntryOf(k)[3], EntryOf(k)[2]) =>
            bars[k].width = DaysBetween(EntryOf(k)[2], EntryOf(k)[3]) * TenthsPerDay

\* C2 amended: for every entry with end > start the bar starts at
\* numeric(start) and its width is (end - start) days; the entry from
\* 2026-07-13 to 2026-07-19 starts at day 20647 with width 6 days.
C2_WidthInDays ==
    \A k \in 1..NumBars :
        /\ DateLT(EntryOf(k)[2], EntryOf(k)[3]) =>
              /\ bars[k].width = DaysBetween(EntryOf(k)[2], EntryOf(k)[3]) * TenthsPerDay
              /\ bars[k].left = date2num(EntryOf(k)[2])
        /\ labels[k] = "ICML 2026" =>
              /\ bars[k].left = 20647
              /\ bars[k].width = 6 * TenthsPerDay

\* the bar of the 2026-07-13 to 2026-07-19 entry has been drawn
C2_Witness ==
    /\ pc = "done"
    /\ \E k \in 1..NumBars :
          /\ EntryOf(k) = <<"ICML 2026", date(2026, 7, 13), date(2026, 7, 19)>>
          /\ bars[k].width = 60

\* Number of positions of s holding e
CountIn(e, s) == Cardinality({k \in 1..Len(s) : s[k] = e})

\* The row (from 0) of the entry at position p of the input list
RowOfInput(p) == (CHOOSE k \in 1..Len(events_sorted) :
                      events_sorted[k] = timeline_events[p]) - 1

\* C3: the rows are a permutation of the input entries, in ascending order
\* of start date, entries of equal start date in their input order; the k-th
\* bar is drawn at row k - 1; "Funding (18 months)" is above "Teaching duties".
C3_StableAscending ==
    Sorted =>
        /\ Len(events_sorted) = Len(timeline_events)
        /\ \A p \in 1..Len(timeline_events) :
              CountIn(timeline_events[p], events_sorted)
                  = CountIn(timeline_events[p], timeline_events)
        /\ \A p, q \in 1..Len(timeline_events) :
              /\ DateLT(timeline_events[p][2], timeline_events[q][2])
                    => RowOfInput(p) < RowOfInput(q)
              /\ (p < q /\ timeline_events[p][2] = timeline_events[q][2])
                    => RowOfInput(p) < RowOfInput(q)
        /\ \A k \in 1..NumBars : bars[k].y = k - 1
        /\ \A a, b \in 1..Len(events_sorted) :
              (events_sorted[a][1] = "Funding (18 months)"
                  /\ events_sorted[b][1] = "Teaching duties") => a < b

\* a completed run in which three entries start on the same day
C3_Witness ==
    /\ pc = "done"
    /\ today = date(2026, 1, 1)
    /\ Cardinality({k \in 1..NumBars : EntryOf(k)[2] = today}) = 3

\* The bars are all drawn and the tick labels are set
TicksSet == pc \in {"xaxis", "grid", "save", "close", "done"}

\* C4 as stated: the number of rows equals the number of entries returned by
\* build_events, which is 12.
C4_AsStated ==
    TicksSet =>
        /\ NumBars = Len(timeline_events)
        /\ Len(yticklabels) = Len(timeline_events)
        /\ Len(timeline_events) = 12

\* C4 amended: the number of bars and of tick labels equals the number of
\* entries returned by build_events, which is 13 (twelve fixed entries and
\* the anchored one).
C4_RowCount ==
    TicksSet =>
        /\ NumBars = Len(timeline_events)
        /\ Len(yticks) = Len(timeline_events)
        /\ Len(yticklabels) = Len(timeline_events)
        /\ Len(timeline_events) = 13

\* the ticks have just been set on a chart of thirteen bars
C4_Witness == pc = "grid" /\ NumBars = 13 /\ Len(yticklabels) = 13

\* C5: a completed run on the same date as the previous completed run has the
\* same geometry for every entry; on a different date, every entry but the
\* anchored one has the same left edge and width as in the previous run.
C5_SameGeometry ==
    (pc = "done" /\ prevGeom # <<>>) =>
        /\ today = prevToday => Geometry = prevGeom
        /\ \A k \in 1..Len(Geometry) :
              Geometry[k].label # AnchoredLabel =>
                  \E j \in 1..Len(prevGeom) :
                      /\ prevGeom[j].label = Geometry[k].label
                      /\ prevGeom[j].left = Geometry[k].left
                      /\ prevGeom[j].width = Geometry[k].width

\* two completed runs on different dates, the anchored bar differing
C5_Witness ==
    /\ pc = "done"
    /\ prevGeom # <<>>
    /\ today # prevToday
    /\ Geometry # prevGeom

\* C6: from the call of create_timeline on, whether it returns or raises,
\* the caller's list is the list build_events returned, entry for entry.
C6_InputUnchanged ==
    pc \notin {"main"} => timeline_events = build_events(today)

\* create_timeline raised after sorting into an order other than the input's
C6_Witness ==
    /\ pc = "failed"
    /\ events_sorted # <<>>
    /\ events_sorted # timeline_events
    /\ timeline_events # <<>>

\* C7: once a library call has raised the process has failed with a non-zero
\* exit status, and from then on nothing is drawn, written or closed; the
\* exit status is 0 only when the file has been written.
C7_FailurePropagates ==
    /\ [](exc = "raised" => (pc = "failed" /\ exitCode > 0))
    /\ [](exitCode = 0 => (exc = "none" /\ files = <<"timeline.png">>))
    /\ [][pc = "failed" =>
            /\ pc' = "failed"
            /\ exitCode' = exitCode
            /\ bars' = bars
            /\ yticklabels' = yticklabels
            /\ files' = files
            /\ fig' = fig]_vars

\* savefig raised: every bar is drawn and no file is written
C7_Witness ==
    /\ pc = "failed"
    /\ exc = "raised"
    /\ NumBars = 13
    /\ yticklabels # <<>>
    /\ files = <<>>

\* The order of the steps of a run
C8_Order ==
    /\ bars # <<>> => timeline_events # <<>>
    /\ \A k \in 1..NumBars : bars[k].y = k - 1
    /\ Len(files) <= 1
    /\ files # <<>> => (files = <<"timeline.png">> /\ NumBars = Len(timeline_events))
    /\ fig = "closed" => files = <<"timeline.png">>
    /\ pc = "done" =>
          (fig = "closed" /\ NumBars = Len(timeline_events) /\ NumBars > 0)

\* C8: build_events returns before any bar is drawn, every bar is drawn once
\* before the write, the one write goes to 'timeline.png', the figure is
\* closed only after the write, and the run terminates.
C8_OrderAndTermination ==
    /\ []C8_Order
    /\ [][files # <<>> => (files' = files /\ bars' = bars)]_vars
    /\ <>(pc \in {"done", "failed"})

\* a successful run: written, then closed
C8_Witness ==
    /\ pc = "done"
    /\ exitCode = 0
    /\ files = <<"timeline.png">>
    /\ fig = "closed"

\* C9: the bar at row k - 1, its left edge, its width and the tick label at
\* position k - 1 all come from the k-th entry of the sorted list; the row
\* labelled "ICML 2026" starts at day 20647, the one labelled
\* "PIRC submission" at day 20589.
C9_RowsPaired ==
    /\ \A k \in 1..NumBars :
          /\ bars[k].y = k - 1
          /\ bars[k].left = date2num(EntryOf(k)[2])
          /\ bars[k].width = BarWidth(DaysBetween(EntryOf(k)[2], EntryOf(k)[3]))
    /\ TicksSet =>
          /\ Len(yticklabels) = NumBars
          /\ \A k \in 1..NumBars :
                /\ yticks[k] = bars[k].y
                /\ yticklabels[k] = EntryOf(k)[1]
                /\ yticklabels[k] = "ICML 2026" => bars[k].left = 20647
                /\ yticklabels[k] = "PIRC submission" => bars[k].left = 20589

\* the tick labels have just been set, in an order other than the input's
C9_Witness ==
    /\ pc = "xaxis"
    /\ NumBars = 13
    /\ yticklabels # [k \in 1..Len(timeline_events) |-> timeline_events[k][1]]

\* The labels of the fixed-date entries, in the order the sort gives them
FixedOrder ==
    <<"NeurIPS 2025", "Funding (18 months)", "Teaching duties", "AAAI 2026",
      "PIRC submission", "ICML 2026", "NeurIPS 2026", "AAAI 2027",
      "Unfunded period", "ICML 2027", "Second paper submission", "NeurIPS 2027">>

IsFixed(e) == e[1] # AnchoredLabel

SortedLabels(s) == [k \in 1..Len(s) |-> s[k][1]]

\* C10: whatever today is, the twelve fixed-date entries come out in the same
\* relative order; the anchored entry is the only one whose place depends on
\* today, and it is above every fixed entry that starts today.
C10_FixedOrderInvariant ==
    Sorted =>
        /\ SortedLabels(SelectSeq(events_sorted, IsFixed)) = FixedOrder
        /\ Len(events_sorted) = Len(FixedOrder) + 1
        /\ \A a, k \in 1..Len(events_sorted) :
              (events_sorted[a][1] = AnchoredLabel
                  /\ IsFixed(events_sorted[k])
                  /\ events_sorted[k][2] = today) => a < k

\* today is the start date of a fixed entry
C10_Witness ==
    /\ pc = "done"
    /\ today = date(2025, 12, 2)
    /\ \E k \in 1..Len(events_sorted) :
          IsFixed(events_sorted[k]) /\ events_sorted[k][2] = today

====
